---- MODULE Spec2Model ----
(***************************************************************************)
(* Model of the keyword extraction library: the weighted directed Graph,  *)
(* the TfIdf scorer, the TextRank ranking engine and the KeywordExtractor  *)
(* that wires them together.                                               *)
(*                                                                         *)
(* Real numbers are fixed-point integers: the real x is the integer        *)
(* x * SCALE, rounded towards minus infinity after every multiplication    *)
(* and division.  Edge weights and counts are plain integers.              *)
(*                                                                         *)
(* A JavaScript Map or object is a function whose DOMAIN is the key set.   *)
(* Where the insertion order of a Map is observable (Graph.nodes) it is    *)
(* kept as a sequence of keys next to the function.                        *)
(***************************************************************************)
EXTENDS Integers, Sequences, FiniteSets, TLC

(***************************************************************************)
(* Bounds of the model.                                                    *)
(***************************************************************************)
SCALE == 10000
MaxLen == 3
MaxDocs == 2
MaxDocLen == 2
MaxEdgeCalls == 2
MaxRawDocs == 2

VARIABLES
  \* Graph (standalone instance)
  nodes, lastOp, addedNodes, edgeSum, edgeCalls,
  \* TextRank instance: fields
  damping, maxIter, minDiff, windowSize, graph, scores,
  \* TextRank.run: locals and position
  pc, priors, iter, newScores, max_diff, visit,
  \* TextRank: what the caller passed, and what each pass did
  options, words, initialWeights, passStart, changes, before,
  \* TfIdf instance: fields, the constructor argument and the last query
  documents, idfCache, docTermCounts, corpus, query,
  \* KeywordExtractor instance and getKeywords
  tokenizedDocs, tfidfModel, built, kpc, docIdx, passed, usedPriors, results, gkOptions

graphVars == <<nodes, lastOp, addedNodes, edgeSum, edgeCalls>>
rankVars == <<damping, maxIter, minDiff, windowSize, graph, scores, pc, priors, iter,
              newScores, max_diff, visit, options, words, initialWeights, passStart,
              changes, before>>
tfidfVars == <<documents, idfCache, docTermCounts, corpus, query>>
extractorVars == <<tokenizedDocs, tfidfModel, built, kpc, docIdx, passed, usedPriors,
                   results, gkOptions>>
vars == <<graphVars, rankVars, tfidfVars, extractorVars>>

\* An option that the caller left out (undefined in JavaScript).
Omitted == -1

(***************************************************************************)
(* JavaScript helpers.                                                     *)
(***************************************************************************)
EmptyMap == [x \in {} |-> 0]

MapSet(m, k, v) == [x \in DOMAIN m \cup {k} |-> IF x = k THEN v ELSE m[x]]

\* m.get(k) || d : d when the key is absent and also when the value is 0.
MapGetOr(m, k, d) == IF k \in DOMAIN m /\ m[k] # 0 THEN m[k] ELSE d

\* options.x || d : d when x was left out and also when x is 0.
OrDefault(x, d) == IF x = Omitted \/ x = 0 THEN d ELSE x

Range(s) == {s[i] : i \in 1..Len(s)}

\* F(e), with e evaluated once before F uses it.
Let(e, F(_)) == CHOOSE r \in {F(x) : x \in {e}} : TRUE

Max(x, y) == IF x >= y THEN x ELSE y

Min(x, y) == IF x <= y THEN x ELSE y

Abs(x) == IF x >= 0 THEN x ELSE -x

\* Array.from(new Set(s)): the distinct elements in order of first occurrence.
RECURSIVE Unique(_)
Unique(s) ==
  IF s = <<>> THEN <<>>
  ELSE LET front == Unique(SubSeq(s, 1, Len(s) - 1))
           last == s[Len(s)]
       IN IF last \in Range(front) THEN front ELSE Append(front, last)

RECURSIVE SumValues(_)
SumValues(m) ==
  IF DOMAIN m = {} THEN 0
  ELSE LET k == CHOOSE x \in DOMAIN m : TRUE
       IN m[k] + SumValues([x \in DOMAIN m \ {k} |-> m[x]])

SeqsUpTo(S, n) == UNION {{f : f \in [1..k -> S]} : k \in 0..n}

(***************************************************************************)
(* Graph<T>: nodes is a Map from -> (Map to -> weight).                    *)
(***************************************************************************)
EmptyGraph == [keys |-> <<>>, adj |-> EmptyMap]

AddNodeOverwrite(g, node) ==
  IF node \in DOMAIN g.adj
  THEN [g EXCEPT !.adj[node] = EmptyMap]
  ELSE [keys |-> Append(g.keys, node), adj |-> MapSet(g.adj, node, EmptyMap)]

AddNode(g, node) ==
  IF node \in DOMAIN g.adj
  THEN g
  ELSE [keys |-> Append(g.keys, node), adj |-> MapSet(g.adj, node, EmptyMap)]

AddEdge(g, from, to, weight) ==
  LET g2 == AddNode(AddNode(g, from), to)
      currentWeight == MapGetOr(g2.adj[from], to, 0)
  IN [g2 EXCEPT !.adj[from] = MapSet(@, to, currentWeight + weight)]

GetNodes(g) == g.keys

GetOutNeighbors(g, node) == IF node \in DOMAIN g.adj THEN g.adj[node] ELSE EmptyMap

GetInNeighbors(g, node) ==
  LET froms == {from \in DOMAIN g.adj : node \in DOMAIN g.adj[from]}
  IN [from \in froms |-> g.adj[from][node]]

GetTotalOutWeight(g, node) == SumValues(GetOutNeighbors(g, node))

ClearKeepsNodes(g) == g

Clear(g) == EmptyGraph

(***************************************************************************)
(* TfIdf.                                                                  *)
(***************************************************************************)
\* SCALE * (x + x^3/3 + x^5/5 + x^7/7 + x^9/9) for the fixed-point x, 0 <= x < SCALE.
AtanhSeries(x) ==
  LET x2 == (x * x) \div SCALE
      x3 == (x * x2) \div SCALE
      x5 == (x3 * x2) \div SCALE
      x7 == (x5 * x2) \div SCALE
      x9 == (x7 * x2) \div SCALE
  IN x + x3 \div 3 + x5 \div 5 + x7 \div 7 + x9 \div 9

\* Math.log(p / q) for positive integers p and q: ln r = 2 atanh((r - 1) / (r + 1)).
Log(p, q) ==
  IF p >= q THEN 2 * AtanhSeries(((p - q) * SCALE) \div (p + q))
  ELSE -(2 * AtanhSeries(((q - p) * SCALE) \div (p + q)))

RECURSIVE CountTerms(_, _)
CountTerms(docFrequency, uniqueTerms) ==
  IF uniqueTerms = <<>> THEN docFrequency
  ELSE LET term == Head(uniqueTerms)
           count == MapGetOr(docFrequency, term, 0)
       IN CountTerms(MapSet(docFrequency, term, count + 1), Tail(uniqueTerms))

\* The first loop of calculateAllIdf: term -> number of documents holding it.
RECURSIVE DocFrequency(_, _)
DocFrequency(docFrequency, docs) ==
  IF docs = <<>> THEN docFrequency
  ELSE DocFrequency(CountTerms(docFrequency, Unique(Head(docs))), Tail(docs))

CalculateAllIdf(docs) ==
  LET totalDocs == Len(docs)
      docFrequency == DocFrequency(EmptyMap, docs)
  IN [term \in DOMAIN docFrequency |-> Log(totalDocs, docFrequency[term] + 1) + SCALE]

\* The fields of a TfIdf built by new TfIdf(docs).
TfIdfConstructor(docs) ==
  IF Len(docs) = 0
  THEN [documents |-> <<>>, idfCache |-> EmptyMap, docTermCounts |-> <<>>]
  ELSE [documents |-> docs, idfCache |-> CalculateAllIdf(docs),
        docTermCounts |-> [i \in 1..Len(docs) |-> Len(docs[i])]]

DocumentAtOneBased(docs, docIndex) ==
  IF docIndex \in 1..Len(docs)
  THEN [found |-> TRUE, document |-> docs[docIndex]]
  ELSE [found |-> FALSE, document |-> <<>>]

\* this.documents[docIndex] for the 0-based docIndex; found = FALSE is undefined.
DocumentAt(docs, docIndex) ==
  IF docIndex \in 0..(Len(docs) - 1)
  THEN [found |-> TRUE, document |-> docs[docIndex + 1]]
  ELSE [found |-> FALSE, document |-> <<>>]

CalculateTf(term, document) ==
  LET totalTermsInDoc == Len(document)
      termCount == Cardinality({i \in 1..Len(document) : document[i] = term})
  IN IF totalTermsInDoc = 0 THEN 0 ELSE (termCount * SCALE) \div totalTermsInDoc

GetTfIdf(t, term, docIndex) ==
  LET at == DocumentAt(t.documents, docIndex)
  IN IF ~at.found THEN 0
     ELSE (CalculateTf(term, at.document) * MapGetOr(t.idfCache, term, 0)) \div SCALE

\* obj[key] = v for a number v on an object literal: the key "__proto__" names
\* the prototype accessor, whose setter ignores a number and adds no property.
ObjectSet(obj, key, v) == IF key = "__proto__" THEN obj ELSE MapSet(obj, key, v)

RECURSIVE SetTermScores(_, _, _, _)
SetTermScores(obj, t, uniqueTerms, docIndex) ==
  IF uniqueTerms = <<>> THEN obj
  ELSE SetTermScores(ObjectSet(obj, Head(uniqueTerms), GetTfIdf(t, Head(uniqueTerms), docIndex)),
                     t, Tail(uniqueTerms), docIndex)

GetDocumentScores(t, docIndex) ==
  LET at == DocumentAt(t.documents, docIndex)
  IN IF ~at.found THEN EmptyMap
     ELSE SetTermScores(EmptyMap, t, Unique(at.document), docIndex)

\* The keys of the object returned by getDocumentScores, in insertion order.
RECURSIVE OwnKeys(_, _)
OwnKeys(obj, order) ==
  IF order = <<>> THEN <<>>
  ELSE IF Head(order) \in DOMAIN obj THEN <<Head(order)>> \o OwnKeys(obj, Tail(order))
       ELSE OwnKeys(obj, Tail(order))

\* Object.entries(obj), or Array.from(map.entries()): <<key, value>> pairs in key order.
Entries(obj, order) ==
  LET keys == OwnKeys(obj, order)
  IN [i \in 1..Len(keys) |-> <<keys[i], obj[keys[i]]>>]

\* new Map(entries)
RECURSIVE MapFromEntries(_)
MapFromEntries(entries) ==
  IF entries = <<>> THEN EmptyMap
  ELSE LET last == entries[Len(entries)]
       IN MapSet(MapFromEntries(SubSeq(entries, 1, Len(entries) - 1)), last[1], last[2])

\* Position of e in a list sorted by descending score: after every entry that
\* does not score less (the sort is stable).
RECURSIVE InsertDesc(_, _)
InsertDesc(sorted, e) ==
  IF sorted = <<>> THEN <<e>>
  ELSE IF Head(sorted)[2] >= e[2] THEN <<Head(sorted)>> \o InsertDesc(Tail(sorted), e)
       ELSE <<e>> \o sorted

\* entries.sort(([, scoreA], [, scoreB]) => scoreB - scoreA)
RECURSIVE SortDesc(_)
SortDesc(entries) ==
  IF entries = <<>> THEN <<>>
  ELSE InsertDesc(SortDesc(SubSeq(entries, 1, Len(entries) - 1)), entries[Len(entries)])

\* array.slice(0, n) for n >= 0
Slice0(array, n) == SubSeq(array, 1, Min(n, Len(array)))

DefaultTopTerms == 5

GetTopTerms(t, docIndex, topN) ==
  LET scoresObj == GetDocumentScores(t, docIndex)
      order == Unique(DocumentAt(t.documents, docIndex).document)
      sortedTerms == SortDesc(Entries(scoresObj, order))
  IN Slice0(sortedTerms, IF topN = Omitted THEN DefaultTopTerms ELSE topN)

GetAllScores(t) == [i \in 1..Len(t.documents) |-> GetDocumentScores(t, i - 1)]

(***************************************************************************)
(* TextRank.                                                               *)
(***************************************************************************)
DefaultDamping == (85 * SCALE) \div 100
DefaultMaxIter == 200
DefaultMinDiff == SCALE \div 10000
DefaultWindowSize == 5
defaultInitialWeight == SCALE

\* The fields of a TextRank built by new TextRank(options).
Constructor(opts) ==
  [damping |-> OrDefault(opts.damping, DefaultDamping),
   maxIter |-> OrDefault(opts.maxIter, DefaultMaxIter),
   minDiff |-> OrDefault(opts.minDiff, DefaultMinDiff),
   windowSize |-> OrDefault(opts.windowSize, DefaultWindowSize)]

RECURSIVE AddNodes(_, _)
AddNodes(g, uniqueWords) ==
  IF uniqueWords = <<>> THEN g
  ELSE AddNodes(AddNode(g, Head(uniqueWords)), Tail(uniqueWords))

RECURSIVE AddEdges(_, _, _)
AddEdges(g, word1, windowSlice) ==
  IF windowSlice = <<>> THEN g
  ELSE Let(AddEdge(g, word1, Head(windowSlice), 1),
           LAMBDA g1 : AddEdges(g1, word1, Tail(windowSlice)))

\* words.slice(start, i).concat(words.slice(i + 1, end)) for the 0-based i.
WindowSliceOneSided(ws, i, W) ==
  LET end == Min(Len(ws), i + W + 1)
  IN SubSeq(ws, i + 2, end)

WindowSlice(ws, i, W) ==
  LET start == Max(0, i - W)
      end == Min(Len(ws), i + W + 1)
  IN SubSeq(ws, start + 1, i) \o SubSeq(ws, i + 2, end)

RECURSIVE BuildEdges(_, _, _, _)
BuildEdges(g, ws, i, W) ==
  IF i >= Len(ws) THEN g
  ELSE Let(AddEdges(g, ws[i + 1], WindowSlice(ws, i, W)),
           LAMBDA g1 : BuildEdges(g1, ws, i + 1, W))

BuildGraph(g, ws, W) ==
  BuildEdges(AddNodes(Clear(g), Unique(ws)), ws, 0, W)

\* The initialWeights argument of run: given = FALSE is undefined.
NoWeights == [given |-> FALSE, map |-> EmptyMap]

RawPriors(g, iw) ==
  [word \in Range(GetNodes(g)) |->
     IF iw.given
     THEN MapGetOr(iw.map, word, defaultInitialWeight)
     ELSE defaultInitialWeight]

TotalWeight(g, iw) ==
  IF iw.given
  THEN SumValues(RawPriors(g, iw))
  ELSE Len(GetNodes(g)) * SCALE

NormalizedPriors(g, iw) ==
  LET raw == RawPriors(g, iw)
      totalWeight == TotalWeight(g, iw)
  IN IF totalWeight > 0
     THEN [word \in DOMAIN raw |-> (raw[word] * SCALE) \div totalWeight]
     ELSE raw

\* Map.clear()
MapClear(m) == EmptyMap

RECURSIVE SetScores(_, _, _)
SetScores(sc, uniqueWords, prior) ==
  IF uniqueWords = <<>> THEN sc
  ELSE SetScores(MapSet(sc, Head(uniqueWords), MapGetOr(prior, Head(uniqueWords), 0)),
                 Tail(uniqueWords), prior)

\* this.scores.clear() and the loop that sets every word's score to its prior.
InitialScores(sc, g, prior) == SetScores(MapClear(sc), GetNodes(g), prior)

RECURSIVE InboundWeightSum(_, _, _)
InboundWeightSum(g, inNeighbors, sc) ==
  IF DOMAIN inNeighbors = {} THEN 0
  ELSE LET potentialNeighbor == CHOOSE x \in DOMAIN inNeighbors : TRUE
           weight == inNeighbors[potentialNeighbor]
           neighborTotalOutboundWeight == GetTotalOutWeight(g, potentialNeighbor)
           rest == [x \in DOMAIN inNeighbors \ {potentialNeighbor} |-> inNeighbors[x]]
           term == IF neighborTotalOutboundWeight > 0
                   THEN (((weight * SCALE) \div neighborTotalOutboundWeight)
                           * MapGetOr(sc, potentialNeighbor, 0)) \div SCALE
                   ELSE 0
       IN term + InboundWeightSum(g, rest, sc)

\* The value stored by newScores.set(word, ...) when the scores read are sc.
NodeRank(g, prior, sc, d, word) ==
  LET rank == ((SCALE - d) * MapGetOr(prior, word, 0)) \div SCALE
  IN rank + (d * InboundWeightSum(g, GetInNeighbors(g, word), sc)) \div SCALE

\* Largest |new[w] - old[w]| over the keys of new.
RECURSIVE MaxChange(_, _)
MaxChange(old, new) ==
  IF DOMAIN new = {} THEN 0
  ELSE LET w == CHOOSE x \in DOMAIN new : TRUE
       IN Max(Abs(new[w] - MapGetOr(old, w, 0)),
              MaxChange(old, [x \in DOMAIN new \ {w} |-> new[x]]))

\* One turn of the iteration loop of run on st = [scores, stopped]; stopped
\* says that an earlier turn has left the loop through break.
OnePass(g, prior, engine, st) ==
  IF st.stopped THEN st
  ELSE Let([word \in Range(GetNodes(g)) |->
              NodeRank(g, prior, st.scores, engine.damping, word)],
           LAMBDA new : [scores |-> new,
                         stopped |-> MaxChange(st.scores, new) < engine.minDiff])

\* n turns of the loop, as n \div 2 turns followed by the rest.
RECURSIVE Passes(_, _, _, _, _)
Passes(g, prior, engine, st, n) ==
  IF n <= 0 THEN st
  ELSE IF n = 1 THEN OnePass(g, prior, engine, st)
  ELSE Let(Passes(g, prior, engine, st, n \div 2),
           LAMBDA half : Passes(g, prior, engine, half, n - n \div 2))

\* The iteration loop of run as a whole: the scores it leaves in this.scores.
Iterate(g, prior, sc, engine) ==
  Passes(g, prior, engine, [scores |-> sc, stopped |-> FALSE], engine.maxIter).scores

\* run(ws, iw) as a whole on an instance whose graph and scores are g and sc.
RunAll(g, sc, engine, ws, iw) ==
  Let(BuildGraph(g, ws, engine.windowSize),
      LAMBDA g1 :
        Let(NormalizedPriors(g1, iw),
            LAMBDA prior :
              [graph |-> g1, priors |-> prior,
               scores |-> Iterate(g1, prior, InitialScores(sc, g1, prior), engine)]))

DefaultTopKeywords == 5

\* getTopKeywords(topN) on scores sc whose keys were inserted in the given order.
GetTopKeywords(sc, order, topN) ==
  Slice0(SortDesc(Entries(sc, order)), IF topN = Omitted THEN DefaultTopKeywords ELSE topN)

(***************************************************************************)
(* KeywordExtractor.  A raw document is the sequence of segments the       *)
(* segmenter cuts it into; " " stands for a segment that is not word-like. *)
(***************************************************************************)
ToLowerCase(segment) == IF segment = "A" THEN "a" ELSE segment

\* defaultTokenizer: the word-like segments, lower-cased.
RECURSIVE DefaultTokenizer(_)
DefaultTokenizer(text) ==
  IF text = <<>> THEN <<>>
  ELSE IF Head(text) = " " THEN DefaultTokenizer(Tail(text))
       ELSE <<ToLowerCase(Head(text))>> \o DefaultTokenizer(Tail(text))

\* The stopword lists of the stopword package, cut down to one word.
defaultStopwords == {"the"}

RECURSIVE RemoveStopwords(_, _)
RemoveStopwords(tokens, stopwordSet) ==
  IF tokens = <<>> THEN <<>>
  ELSE IF Head(tokens) \in stopwordSet THEN RemoveStopwords(Tail(tokens), stopwordSet)
       ELSE <<Head(tokens)>> \o RemoveStopwords(Tail(tokens), stopwordSet)

TokenizeDoc(doc, opts) ==
  LET finalStopwords == IF opts.stopwords.given THEN opts.stopwords.set ELSE defaultStopwords
      tokens == DefaultTokenizer(doc)
  IN IF opts.useStopwords # "false" THEN RemoveStopwords(tokens, finalStopwords) ELSE tokens

ExtractorConstructorAlwaysScorer(input, opts) ==
  LET docs == IF input.isArray THEN input.docs ELSE <<input.text>>
      tokenized == [i \in 1..Len(docs) |-> TokenizeDoc(docs[i], opts)]
  IN [tokenizedDocs |-> tokenized,
      tfidfModel |-> IF Len(tokenized) >= 1
                     THEN [present |-> TRUE, model |-> TfIdfConstructor(tokenized)]
                     ELSE [present |-> FALSE],
      built |-> IF Len(tokenized) >= 1 THEN 1 ELSE 0]

\* The fields of a KeywordExtractor built by new KeywordExtractor(input, opts),
\* and the number of TfIdf instances the constructor built.  The documents
\* argument is the string input.text or the array input.docs.
ExtractorConstructor(input, opts) ==
  LET docs == IF input.isArray THEN input.docs ELSE <<input.text>>
      tokenized == [i \in 1..Len(docs) |-> TokenizeDoc(docs[i], opts)]
  IN [tokenizedDocs |-> tokenized,
      tfidfModel |-> IF Len(tokenized) > 1
                     THEN [present |-> TRUE, model |-> TfIdfConstructor(tokenized)]
                     ELSE [present |-> FALSE],
      built |-> IF Len(tokenized) > 1 THEN 1 ELSE 0]

DefaultTopN == 10

\* The body of the loop of getKeywords for document i: the initialWeights handed
\* to run, the priors run derives from them, and the keywords pushed to results.
RankDocument(docs, model, i, gk) ==
  LET docTokens == docs[i + 1]
      iw == IF model.present
            THEN LET tfidfScores == GetDocumentScores(model.model, i)
                 IN [given |-> TRUE,
                     map |-> MapFromEntries(Entries(tfidfScores, Unique(docTokens)))]
            ELSE NoWeights
      textRank == Constructor(gk.textRankOptions)
      topN == IF gk.topN = Omitted THEN DefaultTopN ELSE gk.topN
  IN Let(RunAll(EmptyGraph, EmptyMap, textRank, docTokens, iw),
         LAMBDA ran :
           Let(GetTopKeywords(ran.scores, GetNodes(ran.graph), topN),
               LAMBDA keywords :
                 [initialWeights |-> iw, priors |-> ran.priors,
                  keywords |-> [k \in 1..Len(keywords) |->
                                  [word |-> keywords[k][1], score |-> keywords[k][2]]]]))

(***************************************************************************)
(* One TextRank instance, run any number of times.  run is followed node   *)
(* by node and pass by pass.                                               *)
(***************************************************************************)
Terms == {"a", "b"}

\* Token sequences passed to run: every short one over Terms, and three longer
\* ones with more distinct terms.
Docs ==
  SeqsUpTo(Terms, MaxLen)
    \cup {<<"a", "b", "c">>, <<"a", "b", "c", "d">>, <<"c", "a", "b", "a">>}

ZeroWeights(ws) == [given |-> TRUE, map |-> [w \in Range(ws) |-> 0]]

MixedWeights ==
  [given |-> TRUE, map |-> [w \in {"a", "b"} |-> IF w = "a" THEN SCALE \div 2 ELSE 2 * SCALE]]

WeightInputs(ws) == {NoWeights, ZeroWeights(ws), MixedWeights}

OptionInputs ==
  {[damping |-> p[1], maxIter |-> p[2], minDiff |-> p[3], windowSize |-> w] :
     p \in {<<Omitted, Omitted, Omitted>>,
            <<SCALE \div 2, 2, SCALE \div 10>>,
            <<Omitted, 3, SCALE \div 100>>},
     w \in {Omitted, 0, 1, 2}}

GraphIdle ==
  /\ nodes = EmptyGraph /\ lastOp = [op |-> "none"] /\ addedNodes = {}
  /\ edgeSum = EmptyMap /\ edgeCalls = 0

TfIdfIdle ==
  /\ documents = <<>> /\ idfCache = EmptyMap /\ docTermCounts = <<>>
  /\ corpus = <<>> /\ query = [op |-> "none"]

ExtractorIdle ==
  /\ tokenizedDocs = <<>> /\ tfidfModel = [present |-> FALSE] /\ built = 0
  /\ kpc = "idle" /\ docIdx = 0 /\ passed = <<>> /\ usedPriors = <<>>
  /\ results = <<>> /\ gkOptions = [topN |-> Omitted]

RankIdle ==
  /\ damping = 0 /\ maxIter = 0 /\ minDiff = 0 /\ windowSize = 0
  /\ graph = EmptyGraph /\ scores = EmptyMap /\ pc = "idle" /\ priors = EmptyMap
  /\ iter = 0 /\ newScores = EmptyMap /\ max_diff = 0 /\ visit = 0
  /\ options = [damping |-> Omitted] /\ words = <<>> /\ initialWeights = NoWeights
  /\ passStart = EmptyMap /\ changes = <<>> /\ before = "fresh"

Init ==
  /\ options \in OptionInputs
  /\ damping = Constructor(options).damping
  /\ maxIter = Constructor(options).maxIter
  /\ minDiff = Constructor(options).minDiff
  /\ windowSize = Constructor(options).windowSize
  /\ graph = EmptyGraph
  /\ scores = EmptyMap
  /\ pc = "idle"
  /\ priors = EmptyMap /\ iter = 0 /\ newScores = EmptyMap /\ max_diff = 0 /\ visit = 0
  /\ words = <<>> /\ initialWeights = NoWeights /\ passStart = EmptyMap
  /\ changes = <<>> /\ before = "fresh"
  /\ GraphIdle /\ TfIdfIdle /\ ExtractorIdle

\* run(words, initialWeights) up to the head of the iteration loop.
Run(ws, iw) ==
  /\ pc \in {"idle", "done"}
  /\ graph' = BuildGraph(graph, ws, windowSize)
  /\ priors' = NormalizedPriors(graph', iw)
  /\ scores' = InitialScores(scores, graph', priors')
  /\ iter' = 0
  /\ pc' = IF 0 < maxIter THEN "pass" ELSE "done"
  /\ newScores' = EmptyMap /\ max_diff' = 0 /\ visit' = 1
  /\ words' = ws /\ initialWeights' = iw
  /\ passStart' = scores' /\ changes' = <<>>
  /\ before' = IF pc = "idle" THEN "fresh"
               ELSE IF Range(GetNodes(graph)) \subseteq Range(ws) THEN "subset"
               ELSE "stale"
  /\ UNCHANGED <<damping, maxIter, minDiff, windowSize, options>>
  /\ UNCHANGED <<graphVars, tfidfVars, extractorVars>>

NodeStepInPlace ==
  /\ pc = "pass"
  /\ visit <= Len(GetNodes(graph))
  /\ LET word == GetNodes(graph)[visit]
         new == NodeRank(graph, priors, scores, damping, word)
     IN /\ newScores' = MapSet(newScores, word, new)
        /\ scores' = MapSet(scores, word, new)
        /\ max_diff' = Max(max_diff, Abs(new - MapGetOr(scores, word, 0)))
  /\ visit' = visit + 1
  /\ UNCHANGED <<damping, maxIter, minDiff, windowSize, graph, pc, priors, iter,
                 options, words, initialWeights, passStart, changes, before>>
  /\ UNCHANGED <<graphVars, tfidfVars, extractorVars>>

\* One turn of the loop over this.graph.getNodes() inside a pass.
NodeStep ==
  /\ pc = "pass"
  /\ visit <= Len(GetNodes(graph))
  /\ LET word == GetNodes(graph)[visit]
         new == NodeRank(graph, priors, scores, damping, word)
     IN /\ newScores' = MapSet(newScores, word, new)
        /\ max_diff' = Max(max_diff, Abs(new - MapGetOr(scores, word, 0)))
  /\ visit' = visit + 1
  /\ UNCHANGED <<damping, maxIter, minDiff, windowSize, graph, scores, pc, priors, iter,
                 options, words, initialWeights, passStart, changes, before>>
  /\ UNCHANGED <<graphVars, tfidfVars, extractorVars>>

PassEndNoBreak ==
  /\ pc = "pass"
  /\ visit > Len(GetNodes(graph))
  /\ scores' = newScores
  /\ changes' = Append(changes, MaxChange(passStart, newScores))
  /\ passStart' = newScores
  /\ iter' = iter + 1
  /\ pc' = IF ~(iter + 1 < maxIter) THEN "done" ELSE "pass"
  /\ newScores' = EmptyMap /\ max_diff' = 0 /\ visit' = 1
  /\ UNCHANGED <<damping, maxIter, minDiff, windowSize, graph, priors,
                 options, words, initialWeights, before>>
  /\ UNCHANGED <<graphVars, tfidfVars, extractorVars>>

\* The end of a pass: this.scores = newScores, the convergence test, iter++.
PassEnd ==
  /\ pc = "pass"
  /\ visit > Len(GetNodes(graph))
  /\ scores' = newScores
  /\ changes' = Append(changes, MaxChange(passStart, newScores))
  /\ passStart' = newScores
  /\ iter' = IF max_diff < minDiff THEN iter ELSE iter + 1
  /\ pc' = IF max_diff < minDiff \/ ~(iter + 1 < maxIter) THEN "done" ELSE "pass"
  /\ newScores' = EmptyMap /\ max_diff' = 0 /\ visit' = 1
  /\ UNCHANGED <<damping, maxIter, minDiff, windowSize, graph, priors,
                 options, words, initialWeights, before>>
  /\ UNCHANGED <<graphVars, tfidfVars, extractorVars>>

Next ==
  \/ \E ws \in Docs : \E iw \in WeightInputs(ws) : Run(ws, iw)
  \/ NodeStep
  \/ PassEnd

Spec == Init /\ [][Next]_vars

(***************************************************************************)
(* Properties of TextRank.                                                 *)
(***************************************************************************)
AllTerms == {"a", "b", "c", "d"}

Engine == [damping |-> damping, maxIter |-> maxIter, minDiff |-> minDiff,
           windowSize |-> windowSize]

\* Number of ordered position pairs (i, j), i # j, |i - j| <= W, ws[i] = u, ws[j] = v.
Cooccurrences(ws, W, u, v) ==
  Cardinality({p \in (1..Len(ws)) \X (1..Len(ws)) :
                 /\ p[1] # p[2] /\ Abs(p[1] - p[2]) <= W
                 /\ ws[p[1]] = u /\ ws[p[2]] = v})

EdgeSet(g) == {p \in (DOMAIN g.adj) \X AllTerms : p[2] \in DOMAIN g.adj[p[1]]}

\* C1: after run with window size W >= 1 the nodes are exactly the distinct
\* terms of the tokens, the weight of u->v is the number of ordered position
\* pairs within distance W carrying (u, v), and u->v is absent when there is no
\* such pair; for [a,b,c,d] and W = 2 the edges are a<->b, a<->c, b<->c, b<->d,
\* c<->d and nothing joins a and d.
C1_CooccurrenceGraph ==
  (pc # "idle" /\ windowSize >= 1) =>
    /\ Range(GetNodes(graph)) = Range(words)
    /\ Len(GetNodes(graph)) = Cardinality(Range(words))
    /\ DOMAIN graph.adj = Range(words)
    /\ \A u \in AllTerms : \A v \in AllTerms :
         LET n == Cooccurrences(words, windowSize, u, v)
         IN IF n = 0 THEN v \notin DOMAIN GetOutNeighbors(graph, u)
            ELSE /\ v \in DOMAIN GetOutNeighbors(graph, u)
                 /\ GetOutNeighbors(graph, u)[v] = n
    /\ (words = <<"a", "b", "c", "d">> /\ windowSize = 2) =>
         EdgeSet(graph) = {<<"a", "b">>, <<"b", "a">>, <<"a", "c">>, <<"c", "a">>,
                           <<"b", "c">>, <<"c", "b">>, <<"b", "d">>, <<"d", "b">>,
                           <<"c", "d">>, <<"d", "c">>}

C1_Witness ==
  /\ pc = "done" /\ windowSize = 2 /\ words = <<"a", "b", "c", "d">>
  /\ DOMAIN GetOutNeighbors(graph, "a") = {"b", "c"}
  /\ GetOutNeighbors(graph, "b")["d"] = 1

\* C2: run with a weight map holding 0 for every term of the document has raw
\* prior sum 0, leaves every prior 0 and starts every score at 0.
C2_ZeroWeightsGiveZeroPriors ==
  (pc # "idle" /\ words # <<>> /\ initialWeights = ZeroWeights(words)) =>
    /\ TotalWeight(graph, initialWeights) = 0
    /\ \A w \in Range(words) : priors[w] = 0
    /\ (pc = "pass" /\ changes = <<>>) => \A w \in Range(words) : scores[w] = 0

FreshGraph == BuildGraph(EmptyGraph, words, windowSize)

FreshRun == RunAll(EmptyGraph, EmptyMap, Engine, words, initialWeights)

\* C3: whatever was run before on the instance, the graph, the priors and the
\* scores are those the last run(words, initialWeights) gives on a fresh
\* instance with the same options; the nodes and the score keys are exactly the
\* distinct terms of the last tokens.
C3_NoLeakBetweenRuns ==
  pc # "idle" =>
    /\ graph = FreshGraph
    /\ Range(GetNodes(graph)) = Range(words)
    /\ DOMAIN scores = Range(words)
    /\ priors = NormalizedPriors(FreshGraph, initialWeights)
    /\ pc = "done" => scores = FreshRun.scores

C3_Witness ==
  /\ pc = "done" /\ before = "stale" /\ words = <<"b", "b">>
  /\ scores = FreshRun.scores /\ DOMAIN scores = {"b"}

C4_PassInv ==
  LET n == Len(changes)
  IN /\ n <= maxIter
     /\ \A j \in 1..(n - 1) : changes[j] >= minDiff
     /\ pc = "pass" => (n < maxIter /\ n = iter /\ (n > 0 => changes[n] >= minDiff))
     /\ pc = "done" => (n >= 1 /\ (n = maxIter \/ changes[n] < minDiff))

\* Steps left in run at most: each pass is one step per node and one to end it.
StepsLeft == (maxIter - iter) * (Len(GetNodes(graph)) + 1) - visit

\* C4: run always terminates; it stops after the first pass whose largest
\* per-node change is below minDiff, or after maxIter passes when there is no
\* such pass, never makes more than maxIter passes and never makes a pass after
\* one whose largest change was below minDiff.
\* Termination: a running run has a natural-number measure of the steps left
\* (passes left times steps per pass), and every step of the run lowers it.
C4_PassCount ==
  /\ []C4_PassInv
  /\ [](pc = "pass" => StepsLeft >= 0)
  /\ [][pc = "pass" => (pc' = "done" \/ StepsLeft' < StepsLeft)]_vars

C4_Witness ==
  /\ pc = "done" /\ Len(changes) > 1 /\ Len(changes) < maxIter
  /\ changes[Len(changes)] < minDiff

\* C8: an engine configured with windowSize = 0 keeps window size 0 and run
\* builds one node per distinct term and no edge.
C8_ZeroWindowNoEdges ==
  (pc # "idle" /\ options.windowSize = 0) =>
    /\ windowSize = 0
    /\ Range(GetNodes(graph)) = Range(words)
    /\ \A u \in DOMAIN graph.adj : graph.adj[u] = EmptyMap

JacobiPass(sc) ==
  [w \in Range(GetNodes(graph)) |-> NodeRank(graph, priors, sc, damping, w)]

C9_PassInv ==
  pc = "pass" =>
    /\ scores = passStart
    /\ DOMAIN newScores = {GetNodes(graph)[k] : k \in 1..(visit - 1)}
    /\ \A w \in DOMAIN newScores : newScores[w] = JacobiPass(passStart)[w]

\* C9: inside a pass every new score is computed from the scores as they stood
\* when the pass began, this.scores is not written before the pass ends, and the
\* pass then replaces it as a whole by the scores computed from that snapshot.
C9_SynchronousUpdate ==
  /\ []C9_PassInv
  /\ [][Len(changes') = Len(changes) + 1 => scores' = JacobiPass(passStart)]_vars

C9_Witness ==
  /\ pc = "pass" /\ visit = 2 /\ Len(GetNodes(graph)) >= 2
  /\ newScores[GetNodes(graph)[1]] # scores[GetNodes(graph)[1]]
  /\ GetNodes(graph)[1] \in DOMAIN GetInNeighbors(graph, GetNodes(graph)[2])

(***************************************************************************)
(* One Graph instance under any sequence of addNode, addEdge and clear.    *)
(* addedNodes and edgeSum record what was asked for since the last clear.  *)
(***************************************************************************)
GraphNodes == {"a", "b", "c"}

\* The weight argument of addEdge; left out, the parameter default 1 applies.
WeightInputs10 == {Omitted, 0, 2}

RankIdleAll ==
  /\ RankIdle /\ TfIdfIdle /\ ExtractorIdle

InitGraph ==
  /\ nodes = EmptyGraph
  /\ lastOp = [op |-> "none"]
  /\ addedNodes = {}
  /\ edgeSum = EmptyMap
  /\ edgeCalls = 0
  /\ RankIdleAll

GraphAddNode(node) ==
  /\ nodes' = AddNode(nodes, node)
  /\ lastOp' = [op |-> "addNode", from |-> node, to |-> node]
  /\ addedNodes' = addedNodes \cup {node}
  /\ UNCHANGED <<edgeSum, edgeCalls>>
  /\ UNCHANGED <<rankVars, tfidfVars, extractorVars>>

GraphAddEdge(from, to, w) ==
  /\ edgeCalls < MaxEdgeCalls
  /\ LET weight == IF w = Omitted THEN 1 ELSE w
     IN /\ nodes' = AddEdge(nodes, from, to, weight)
        /\ edgeSum' = MapSet(edgeSum, <<from, to>>,
                             (IF <<from, to>> \in DOMAIN edgeSum
                              THEN edgeSum[<<from, to>>] ELSE 0) + weight)
  /\ lastOp' = [op |-> "addEdge", from |-> from, to |-> to]
  /\ addedNodes' = addedNodes \cup {from, to}
  /\ edgeCalls' = edgeCalls + 1
  /\ UNCHANGED <<rankVars, tfidfVars, extractorVars>>

GraphClear ==
  /\ nodes' = Clear(nodes)
  /\ lastOp' = [op |-> "clear", from |-> "", to |-> ""]
  /\ addedNodes' = {}
  /\ edgeSum' = EmptyMap
  /\ edgeCalls' = 0
  /\ UNCHANGED <<rankVars, tfidfVars, extractorVars>>

NextGraph ==
  \/ \E node \in GraphNodes : GraphAddNode(node)
  \/ \E from \in GraphNodes, to \in GraphNodes, w \in WeightInputs10 :
       GraphAddEdge(from, to, w)
  \/ GraphClear

SpecGraph == InitGraph /\ [][NextGraph]_vars

C10_GraphInv ==
  /\ Range(GetNodes(nodes)) = addedNodes
  /\ Len(GetNodes(nodes)) = Cardinality(addedNodes)
  /\ DOMAIN nodes.adj = addedNodes
  /\ \A from \in GraphNodes : \A to \in GraphNodes :
       /\ <<from, to>> \in DOMAIN edgeSum <=> to \in DOMAIN GetOutNeighbors(nodes, from)
       /\ <<from, to>> \in DOMAIN edgeSum =>
            GetOutNeighbors(nodes, from)[to] = edgeSum[<<from, to>>]
  /\ \A u \in GraphNodes : \A n \in GraphNodes :
       /\ u \in DOMAIN GetInNeighbors(nodes, n) <=> n \in DOMAIN GetOutNeighbors(nodes, u)
       /\ u \in DOMAIN GetInNeighbors(nodes, n) =>
            GetInNeighbors(nodes, n)[u] = GetOutNeighbors(nodes, u)[n]

C10_GraphStep ==
  /\ (lastOp'.op = "addNode" /\ lastOp'.from \in DOMAIN nodes.adj) => nodes' = nodes
  /\ (lastOp'.op = "addEdge" /\ lastOp'.from # lastOp'.to) =>
       /\ lastOp'.from \in DOMAIN GetOutNeighbors(nodes', lastOp'.to)
            <=> lastOp'.from \in DOMAIN GetOutNeighbors(nodes, lastOp'.to)
       /\ lastOp'.from \in DOMAIN GetOutNeighbors(nodes, lastOp'.to) =>
            GetOutNeighbors(nodes', lastOp'.to)[lastOp'.from]
              = GetOutNeighbors(nodes, lastOp'.to)[lastOp'.from]

\* C10: since the last clear, every node added or used as an end of an edge is
\* in getNodes() with an adjacency map; addNode of an existing node changes
\* nothing; the weight of from->to is the sum of the weights of the
\* addEdge(from, to, w) calls and addEdge(from, to) leaves to->from as it was;
\* getInNeighbors(n) holds u with weight x exactly when getOutNeighbors(u) holds
\* n with weight x.
C10_GraphContract == []C10_GraphInv /\ [][C10_GraphStep]_vars

C10_Witness ==
  /\ edgeCalls = 2 /\ addedNodes = GraphNodes
  /\ nodes.adj["a"] = [x \in {"b"} |-> 3]
  /\ nodes.adj["b"] = EmptyMap
  /\ lastOp.op = "addNode"
  /\ nodes.adj["c"] = EmptyMap
  /\ GetInNeighbors(nodes, "b") = [x \in {"a"} |-> 3]

(***************************************************************************)
(* One TfIdf instance built from a corpus and then queried.                *)
(***************************************************************************)
TfTerms == {"cat", "__proto__"}

TfDocs == SeqsUpTo(TfTerms, MaxDocLen)

Corpora ==
  SeqsUpTo(TfDocs, MaxDocs) \cup {<< <<"cat", "dog", "cat">>, <<"dog", "bird">> >>}

QueryTerms == TfTerms \cup {"dog", "zebra"}

DocIndexes == (-1)..MaxDocs

TopNInputs == {Omitted, 1}

Self == [documents |-> documents, idfCache |-> idfCache, docTermCounts |-> docTermCounts]

InitTfIdf ==
  /\ corpus \in Corpora
  /\ documents = TfIdfConstructor(corpus).documents
  /\ idfCache = TfIdfConstructor(corpus).idfCache
  /\ docTermCounts = TfIdfConstructor(corpus).docTermCounts
  /\ query = [op |-> "none"]
  /\ GraphIdle /\ RankIdle /\ ExtractorIdle

QueryTfIdf(term, docIndex) ==
  /\ query' = [op |-> "getTfIdf", term |-> term, docIndex |-> docIndex,
               result |-> GetTfIdf(Self, term, docIndex)]
  /\ UNCHANGED <<documents, idfCache, docTermCounts, corpus>>
  /\ UNCHANGED <<graphVars, rankVars, extractorVars>>

QueryDocumentScores(docIndex) ==
  /\ query' = [op |-> "getDocumentScores", term |-> "", docIndex |-> docIndex,
               result |-> GetDocumentScores(Self, docIndex)]
  /\ UNCHANGED <<documents, idfCache, docTermCounts, corpus>>
  /\ UNCHANGED <<graphVars, rankVars, extractorVars>>

QueryTopTerms(docIndex, topN) ==
  /\ query' = [op |-> "getTopTerms", term |-> "", docIndex |-> docIndex, topN |-> topN,
               result |-> GetTopTerms(Self, docIndex, topN)]
  /\ UNCHANGED <<documents, idfCache, docTermCounts, corpus>>
  /\ UNCHANGED <<graphVars, rankVars, extractorVars>>

QueryAllScores ==
  /\ query' = [op |-> "getAllScores", term |-> "", docIndex |-> 0,
               result |-> GetAllScores(Self)]
  /\ UNCHANGED <<documents, idfCache, docTermCounts, corpus>>
  /\ UNCHANGED <<graphVars, rankVars, extractorVars>>

NextTfIdf ==
  \/ \E term \in QueryTerms, docIndex \in DocIndexes : QueryTfIdf(term, docIndex)
  \/ \E docIndex \in DocIndexes : QueryDocumentScores(docIndex)
  \/ \E docIndex \in DocIndexes, topN \in TopNInputs : QueryTopTerms(docIndex, topN)
  \/ QueryAllScores

SpecTfIdf == InitTfIdf /\ [][NextTfIdf]_vars

BadIndex == query.docIndex \notin 0..(Len(corpus) - 1)

\* C6: on an empty corpus getTfIdf gives 0 and getDocumentScores, getTopTerms
\* and getAllScores give an empty result; on any corpus a document index outside
\* 0..N-1 makes getTfIdf give 0 and getDocumentScores and getTopTerms give an
\* empty result; the stored documents and the IDF cache stay as built.
C6_DegradesOnBadInput ==
  /\ documents = corpus
  /\ idfCache = TfIdfConstructor(corpus).idfCache
  /\ (corpus = <<>>) => (idfCache = EmptyMap /\ docTermCounts = <<>>)
  /\ (query.op = "getTfIdf" /\ BadIndex) => query.result = 0
  /\ (query.op = "getDocumentScores" /\ BadIndex) => DOMAIN query.result = {}
  /\ (query.op = "getTopTerms" /\ BadIndex) => Len(query.result) = 0
  /\ (query.op = "getAllScores" /\ corpus = <<>>) => Len(query.result) = 0

C6_Witness ==
  /\ query.op = "getDocumentScores" /\ Len(corpus) = 2 /\ query.docIndex = 2
  /\ corpus[2] # <<>> /\ DOMAIN query.result = {}

CorpusTerms == UNION {Range(corpus[i]) : i \in 1..Len(corpus)}

Df(term) == Cardinality({i \in 1..Len(corpus) : term \in Range(corpus[i])})

Idf(term) == Log(Len(corpus), Df(term) + 1) + SCALE

Tf(term, d) ==
  IF d = <<>> THEN 0
  ELSE (Cardinality({i \in 1..Len(d) : d[i] = term}) * SCALE) \div Len(d)

\* C7: for a valid index d the keys of getDocumentScores(d) are exactly the
\* distinct terms of document d, whatever strings they are, each value is
\* tf(t,d) * idf(t) with df(t) the number of documents holding t; the IDF cache
\* holds exactly the terms of the corpus, and getTfIdf of a term outside the
\* corpus is 0.
C7_DocumentScores ==
  /\ DOMAIN idfCache = CorpusTerms
  /\ \A t \in CorpusTerms : idfCache[t] = Idf(t)
  /\ (query.op = "getTfIdf" /\ query.term \notin CorpusTerms) => query.result = 0
  /\ (query.op = "getDocumentScores" /\ ~BadIndex) =>
       LET d == corpus[query.docIndex + 1]
       IN /\ DOMAIN query.result = Range(d)
          /\ \A t \in DOMAIN query.result :
               query.result[t] = (Tf(t, d) * Idf(t)) \div SCALE

(***************************************************************************)
(* One KeywordExtractor and its getKeywords, one document per step.        *)
(***************************************************************************)
RawDocInputs ==
  {<<>>, <<"a">>, <<"A", " ", "b">>, <<"the", " ", "a">>,
   <<"b", " ", "the", " ", "a", " ", "a">>}

DocumentsInputs ==
  {[isArray |-> FALSE, text |-> d, docs |-> <<>>] : d \in RawDocInputs}
    \cup {[isArray |-> TRUE, text |-> <<>>, docs |-> ds] :
            ds \in SeqsUpTo(RawDocInputs, MaxRawDocs)}

ExtractorOptionInputs ==
  {[useStopwords |-> u, stopwords |-> sw] :
     u \in {"omitted", "true", "false"},
     sw \in {[given |-> FALSE, set |-> {}], [given |-> TRUE, set |-> {"b"}]}}

GetKeywordsInputs ==
  {[topN |-> n, textRankOptions |-> o] :
     n \in {Omitted, 1},
     o \in {[damping |-> Omitted, maxIter |-> Omitted, minDiff |-> Omitted,
             windowSize |-> Omitted],
            [damping |-> SCALE \div 2, maxIter |-> 2, minDiff |-> Omitted,
             windowSize |-> 1]}}

InitExtractor ==
  /\ \E input \in DocumentsInputs, opts \in ExtractorOptionInputs :
       /\ tokenizedDocs = ExtractorConstructor(input, opts).tokenizedDocs
       /\ tfidfModel = ExtractorConstructor(input, opts).tfidfModel
       /\ built = ExtractorConstructor(input, opts).built
  /\ kpc = "idle" /\ docIdx = 0 /\ passed = <<>> /\ usedPriors = <<>>
  /\ results = <<>> /\ gkOptions = [topN |-> Omitted]
  /\ GraphIdle /\ RankIdle /\ TfIdfIdle

\* getKeywords(gk) up to the head of the loop over the documents.
GetKeywordsCall(gk) ==
  /\ kpc = "idle"
  /\ kpc' = "loop"
  /\ gkOptions' = gk
  /\ docIdx' = 0
  /\ results' = <<>> /\ passed' = <<>> /\ usedPriors' = <<>>
  /\ UNCHANGED <<tokenizedDocs, tfidfModel, built>>
  /\ UNCHANGED <<graphVars, rankVars, tfidfVars>>

\* One turn of the loop: rank document docIdx on a new TextRank.
GetKeywordsStep ==
  /\ kpc = "loop"
  /\ docIdx < Len(tokenizedDocs)
  /\ \E turn \in {RankDocument(tokenizedDocs, tfidfModel, docIdx, gkOptions)} :
       /\ results' = Append(results, turn.keywords)
       /\ passed' = Append(passed, turn.initialWeights)
       /\ usedPriors' = Append(usedPriors, turn.priors)
  /\ docIdx' = docIdx + 1
  /\ UNCHANGED <<tokenizedDocs, tfidfModel, built, kpc, gkOptions>>
  /\ UNCHANGED <<graphVars, rankVars, tfidfVars>>

GetKeywordsReturn ==
  /\ kpc = "loop"
  /\ ~(docIdx < Len(tokenizedDocs))
  /\ kpc' = "idle"
  /\ UNCHANGED <<tokenizedDocs, tfidfModel, built, docIdx, passed, usedPriors, results,
                 gkOptions>>
  /\ UNCHANGED <<graphVars, rankVars, tfidfVars>>

NextExtractor ==
  \/ \E gk \in GetKeywordsInputs : GetKeywordsCall(gk)
  \/ GetKeywordsStep
  \/ GetKeywordsReturn

SpecExtractor == InitExtractor /\ [][NextExtractor]_vars

\* C5: the extractor holds a TfIdf exactly when more than one document was
\* supplied, it builds at most one, over all tokenized documents; with one
\* document run gets no prior map and every node has prior 1/V; with more,
\* document i is run with exactly getDocumentScores(i) of that one scorer.
C5_ScorerOnlyForSeveralDocs ==
  /\ tfidfModel.present <=> Len(tokenizedDocs) > 1
  /\ built = IF Len(tokenizedDocs) > 1 THEN 1 ELSE 0
  /\ tfidfModel.present => tfidfModel.model = TfIdfConstructor(tokenizedDocs)
  /\ \A j \in 1..Len(passed) :
       IF Len(tokenizedDocs) = 1
       THEN /\ passed[j] = NoWeights
            /\ DOMAIN usedPriors[j] = Range(tokenizedDocs[j])
            /\ \A w \in DOMAIN usedPriors[j] :
                 usedPriors[j][w] = SCALE \div Cardinality(Range(tokenizedDocs[j]))
       ELSE /\ passed[j].given
            /\ passed[j].map = GetDocumentScores(TfIdfConstructor(tokenizedDocs), j - 1)

C5_Witness ==
  /\ kpc = "idle" /\ Len(tokenizedDocs) = 2 /\ Len(passed) = 2
  /\ tfidfModel.present
  /\ DOMAIN passed[2].map = {"a", "b"}
  /\ passed[2].map["a"] # passed[2].map["b"]

====
